---------------------------- MODULE Spec2Model ----------------------------
(***************************************************************************)
(* Model of pythonjsonlogger/json.py: the JsonEncoder fallback chain, the  *)
(* JsonFormatter configuration and its jsonify_log_record call, and the    *)
(* module level __getattr__ shim for the deprecated RESERVED_ATTRS name.   *)
(*                                                                         *)
(* Python objects are named by strings.  None is the string "None".  A     *)
(* Python str produced while encoding is a TLA+ string, and the document   *)
(* json.dumps returns is one TLA+ string built by concatenation.           *)
(***************************************************************************)
EXTENDS Naturals, Sequences, FiniteSets, TLC

None == "None"

(***************************************************************************)
(* The values a log record may hold.                                       *)
(*   int1          1                                                       *)
(*   true          True                                                    *)
(*   text_e        the one-character str U+00E9 (not ASCII)                *)
(*   date          datetime.date(2020, 1, 2)                               *)
(*   tb            a traceback object (sys.exc_info()[2])                  *)
(*   exc           ValueError("v")                                         *)
(*   excExact      Exception("x"), so type(o) == Exception                 *)
(*   excBadStr     an Exception subclass instance whose __str__ raises     *)
(*                 ValueError                                              *)
(*   dateExc       an Exception subclass instance whose __class__ property *)
(*                 answers datetime.date and that defines isoformat():     *)
(*                 isinstance(o, date) and isinstance(o, Exception)        *)
(*   ExcType       the class Exception itself (type(o) == type)            *)
(*   MetaCls       a class whose metaclass M is a subclass of type with a  *)
(*                 working __str__ (type(o) == M, not type)                *)
(*   MetaClsBadStr a class whose metaclass __str__ raises ValueError       *)
(*   obj           an instance of a plain class (default __str__)          *)
(*   objBadStr     an instance whose __str__ raises ValueError             *)
(*   objBaseExc    an instance whose __str__ raises KeyboardInterrupt      *)
(*   listMixed     the list [objBadStr, date]                              *)
(***************************************************************************)
NativeScalars == {"int1", "true", "text_e"}

ListValues == {"listMixed"}

OpaqueValues == {"date", "tb", "exc", "excExact", "excBadStr", "dateExc",
                 "ExcType", "MetaCls", "MetaClsBadStr", "obj", "objBadStr",
                 "objBaseExc"}

Values == NativeScalars \cup ListValues \cup OpaqueValues

ListItems(v) == IF v = "listMixed" THEN <<"objBadStr", "date">> ELSE <<>>

\* isinstance(o, (date, datetime, time))
IsTemporal(o) == o \in {"date", "dateExc"}

\* inspect.istraceback(o)
istraceback(o) == o = "tb"

\* type(o) == Exception
IsExactException(o) == o = "excExact"

\* isinstance(o, Exception)
IsExceptionInstance(o) == o \in {"exc", "excExact", "excBadStr", "dateExc"}

\* type(o) == type
IsExactType(o) == o = "ExcType"

(***************************************************************************)
(* Outcomes of a call: kind "str" (a str was returned, in text), "None"    *)
(* (None was returned) or "raise" (the error class in err propagated).     *)
(* rule is the rule of JsonEncoder.default that produced the outcome and   *)
(* steps the rules whose test or handler ran, in order (0 and <<>> for a   *)
(* call that is not JsonEncoder.default).                                  *)
(***************************************************************************)
RetStr(t, r, s) == [kind |-> "str", text |-> t, err |-> None, rule |-> r, steps |-> s]

RetNone(r, s) == [kind |-> "None", text |-> "", err |-> None, rule |-> r, steps |-> s]

Raise(e, r, s) == [kind |-> "raise", text |-> "", err |-> e, rule |-> r, steps |-> s]

\* The error classes that derive from Exception; KeyboardInterrupt derives
\* from BaseException only.
ExceptionSubclasses == {"ValueError", "TypeError", "OSError", "AttributeError"}

\* what o.__str__ raises, None when it returns
StrError(o) ==
    CASE o \in {"excBadStr", "MetaClsBadStr", "objBadStr"} -> "ValueError"
      [] o = "objBaseExc" -> "KeyboardInterrupt"
      [] OTHER -> None

\* the str that str(o) returns when o.__str__ returns
StrText(o) == "str(" \o o \o ")"

\* str(o)
PyStr(o, r, s) == IF StrError(o) = None THEN RetStr(StrText(o), r, s)
                  ELSE Raise(StrError(o), r, s)

\* JsonEncoder.format_datetime_obj: o.isoformat()
format_datetime_obj(o, r, s) == RetStr("iso(" \o o \o ")", r, s)

\* "".join(traceback.format_tb(o)).strip()
FormatTb(o, r, s) == RetStr("tb(" \o o \o ")", r, s)

\* json.JSONEncoder.default: always raises TypeError
BaseDefault(o, r, s) == Raise("TypeError", r, s)

\* DelegateThenStr without the inner try: an error of str(o) propagates.
DelegateThenStrUnguarded(o) ==
    LET base == BaseDefault(o, 4, <<1, 2, 3, 4>>)
    IN  IF base.kind = "raise" /\ base.err = "TypeError"
        THEN PyStr(o, 5, <<1, 2, 3, 4, 5>>)
        ELSE base

\* DelegateThenStr that answers None as soon as the base encoder refuses,
\* without trying str(o).
DelegateThenNull(o) ==
    LET base == BaseDefault(o, 4, <<1, 2, 3, 4>>)
    IN  IF base.kind = "raise" /\ base.err = "TypeError"
        THEN RetNone(5, <<1, 2, 3, 4, 5>>)
        ELSE base

\* The try/except of rules 4 and 5 of JsonEncoder.default.
DelegateThenStr(o) ==
    LET base == BaseDefault(o, 4, <<1, 2, 3, 4>>)
        txt  == PyStr(o, 5, <<1, 2, 3, 4, 5>>)
    IN  IF base.kind = "raise" /\ base.err = "TypeError"
        THEN IF txt.kind = "raise" /\ txt.err \in ExceptionSubclasses
             THEN RetNone(5, <<1, 2, 3, 4, 5>>)
             ELSE txt
        ELSE base

\* Default with the exception/type test moved in front of the temporal one.
DefaultExceptionFirst(o) ==
    IF IsExactException(o) \/ IsExceptionInstance(o) \/ IsExactType(o)
    THEN PyStr(o, 3, <<3>>)
    ELSE IF IsTemporal(o) THEN format_datetime_obj(o, 1, <<3, 1>>)
    ELSE IF istraceback(o) THEN FormatTb(o, 2, <<3, 1, 2>>)
    ELSE DelegateThenStr(o)

\* JsonEncoder.default
Default(o) ==
    IF IsTemporal(o) THEN format_datetime_obj(o, 1, <<1>>)
    ELSE IF istraceback(o) THEN FormatTb(o, 2, <<1, 2>>)
    ELSE IF IsExactException(o) \/ IsExceptionInstance(o) \/ IsExactType(o)
         THEN PyStr(o, 3, <<1, 2, 3>>)
    ELSE DelegateThenStr(o)

(***************************************************************************)
(* The standard library's json.dumps, as far as the formatter uses it.     *)
(***************************************************************************)
Quote(t) == "\"" \o t \o "\""

\* The JSON text of a natively encodable scalar.  ensure_ascii escapes the
\* non-ASCII character; "[U+00E9]" stands for the character itself.
ScalarToken(v, ensure_ascii) ==
    CASE v = "int1" -> "1"
      [] v = "true" -> "true"
      [] v = "text_e" -> IF ensure_ascii = "True" THEN Quote("\\u00e9")
                         ELSE Quote("[U+00E9]")
      [] OTHER -> "null"

\* "\n" followed by the indent of a nesting level (indent 2), or nothing.
NewlineIndent(indent, level) ==
    IF indent = None THEN ""
    ELSE IF level = 0 THEN "\n"
    ELSE IF level = 1 THEN "\n  "
    ELSE "\n    "

\* json.dumps: separators default to (", ", ": "), and to (",", ": ") when
\* indent is given.
ItemSeparator(indent, level) ==
    IF indent = None THEN ", " ELSE "," \o NewlineIndent(indent, level)

\* The default hooks a JSONEncoder instance may end up with.
\*   JsonEncoder  this module's JsonEncoder.default
\*   JSONEncoder  json.JSONEncoder.default
\*   UserEncoder  a caller's JSONEncoder subclass whose default returns a
\*                str for temporal values and calls super().default(o) for
\*                the rest
\*   userDefault  a caller's function that returns a str for every value
HookCall(hook, o) ==
    CASE hook = "JsonEncoder" -> Default(o)
      [] hook = "UserEncoder" -> IF IsTemporal(o) THEN RetStr("enc(" \o o \o ")", 0, <<>>)
                                 ELSE BaseDefault(o, 0, <<>>)
      [] hook = "userDefault" -> RetStr("fn(" \o o \o ")", 0, <<>>)
      [] OTHER -> BaseDefault(o, 0, <<>>)

\* json.dumps builds cls(default=default, ...) with cls = JSONEncoder when
\* cls is None, and JSONEncoder.__init__ stores a given default= on the
\* instance, where it shadows the class's own default method.
EffectiveHook(default, cls) ==
    IF default # None THEN default
    ELSE IF cls = None THEN "JSONEncoder"
    ELSE cls

\* A partly written document: the text so far, or the error that ended
\* the encode, and the hook calls made so far, in order.
Written(text, calls) == [kind |-> "return", out |-> text, err |-> None, calls |-> calls]

Failed(e, calls) == [kind |-> "raise", out |-> "", err |-> e, calls |-> calls]

\* One value that is not a container: a scalar is written as it is, any
\* other value goes to the hook, whose result is written.
EncodeLeaf(v, hook, ensure_ascii) ==
    IF v \in NativeScalars THEN Written(ScalarToken(v, ensure_ascii), <<>>)
    ELSE LET r == HookCall(hook, v)
             c == <<[hook |-> hook, value |-> v, res |-> r]>>
         IN  CASE r.kind = "str" -> Written(Quote(r.text), c)
               [] r.kind = "None" -> Written("null", c)
               [] OTHER -> Failed(r.err, c)

RECURSIVE ListBody(_, _, _, _, _, _)
\* The items of a list from index i on, separated; the first error ends it.
ListBody(items, i, hook, ensure_ascii, indent, level) ==
    IF i > Len(items) THEN Written("", <<>>)
    ELSE LET h == EncodeLeaf(items[i], hook, ensure_ascii)
         IN  IF h.kind = "raise" THEN h
             ELSE LET rest == ListBody(items, i + 1, hook, ensure_ascii, indent, level)
                      sep  == IF i < Len(items) THEN ItemSeparator(indent, level) ELSE ""
                  IN  IF rest.kind = "raise" THEN Failed(rest.err, h.calls \o rest.calls)
                      ELSE Written(h.out \o sep \o rest.out, h.calls \o rest.calls)

\* A value at a nesting level: a list is written with its items one level
\* deeper.
EncodeValue(v, hook, ensure_ascii, indent, level) ==
    IF v \in ListValues
    THEN IF ListItems(v) = <<>> THEN Written("[]", <<>>)
         ELSE LET b == ListBody(ListItems(v), 1, hook, ensure_ascii, indent, level + 1)
              IN  IF b.kind = "raise" THEN b
                  ELSE Written("[" \o NewlineIndent(indent, level + 1) \o b.out
                               \o NewlineIndent(indent, level) \o "]", b.calls)
    ELSE EncodeLeaf(v, hook, ensure_ascii)

RECURSIVE DictBody(_, _, _, _, _)
\* The items of the record from index i on, in insertion order.
DictBody(rec, i, hook, ensure_ascii, indent) ==
    IF i > Len(rec) THEN Written("", <<>>)
    ELSE LET h == EncodeValue(rec[i][2], hook, ensure_ascii, indent, 1)
         IN  IF h.kind = "raise" THEN h
             ELSE LET rest == DictBody(rec, i + 1, hook, ensure_ascii, indent)
                      sep  == IF i < Len(rec) THEN ItemSeparator(indent, 1) ELSE ""
                  IN  IF rest.kind = "raise" THEN Failed(rest.err, h.calls \o rest.calls)
                      ELSE Written(Quote(rec[i][1]) \o ": " \o h.out \o sep \o rest.out,
                                   h.calls \o rest.calls)

\* json.dumps(rec, default=, cls=, indent=, ensure_ascii=)
JsonDumps(rec, default, cls, indent, ensure_ascii) ==
    LET hook == EffectiveHook(default, cls)
    IN  IF rec = <<>> THEN Written("{}", <<>>)
        ELSE LET b == DictBody(rec, 1, hook, ensure_ascii, indent)
             IN  IF b.kind = "raise" THEN b
                 ELSE Written("{" \o NewlineIndent(indent, 1) \o b.out
                              \o NewlineIndent(indent, 0) \o "}", b.calls)

\* The objects a caller may configure as json_serializer.
\*   json.dumps     the default
\*   notCallable    the int 5: calling it raises TypeError
\*   raisesOSError  a callable that raises OSError whatever it is given
Serializers == {"json.dumps", "notCallable", "raisesOSError"}

\* self.json_serializer(log_record, default=, cls=, indent=, ensure_ascii=)
CallSerializer(serializer, rec, default, cls, indent, ensure_ascii) ==
    CASE serializer = "json.dumps" -> JsonDumps(rec, default, cls, indent, ensure_ascii)
      [] serializer = "notCallable" -> Failed("TypeError", <<>>)
      [] OTHER -> Failed("OSError", <<>>)

(***************************************************************************)
(* JsonFormatter: one instance, its callers, and the module's shim.        *)
(***************************************************************************)
VARIABLES
    constructed,        \* "True" once __init__ has returned
    given_default,      \* the json_default argument __init__ was called with
    given_encoder,      \* the json_encoder argument __init__ was called with
    json_default,       \* self.json_default
    json_encoder,       \* self.json_encoder
    json_serializer,    \* self.json_serializer
    json_indent,        \* self.json_indent
    json_ensure_ascii,  \* self.json_ensure_ascii
    pc,                 \* per caller: "idle", "called" or "done"
    rec,                \* per caller: the log_record of its call
    invoked,            \* per caller: calls of self.json_serializer so far
    passed,             \* per caller: the keyword arguments handed over
    result,             \* per caller: what jsonify_log_record returned or raised
    accessLog,          \* the names looked up through __getattr__, in order
    warnLog,            \* the warnings issued by warnings.warn, in order
    lookup              \* the outcome of the last lookup

config == <<json_default, json_encoder, json_serializer, json_indent, json_ensure_ascii>>

formatterVars == <<constructed, given_default, given_encoder, json_default,
                   json_encoder, json_serializer, json_indent, json_ensure_ascii>>

callVars == <<pc, rec, invoked, passed, result>>

shimVars == <<accessLog, warnLog, lookup>>

vars == <<formatterVars, callVars, shimVars>>

\* the callers of one formatter instance
Callers == {1, 2}

Keys == {"a", "b"}

\* The records over a set of values: text keys, each at most once, in
\* insertion order.
RecordsOver(vals) ==
    {<<>>}
    \cup {<<<<k, v>>>> : k \in Keys, v \in vals}
    \cup {r \in {<<<<k1, v1>>, <<k2, v2>>>> : k1 \in Keys, k2 \in Keys,
                                              v1 \in vals, v2 \in vals} :
               r[1][1] # r[2][1]}

Records == RecordsOver(Values)

\* The records the concurrent callers use: one field with any value, or
\* up to two fields with a number, a bool or an object.
ConcValues == {"int1", "true", "obj"}

ConcRecords == RecordsOver(ConcValues) \cup {<<<<"a", v>>>> : v \in Values}

\* the arguments a caller may construct the formatter with
DefaultArgs == {None, "userDefault"}

EncoderArgs == {None, "UserEncoder"}

IndentArgs == {None, "2"}

BoolArgs == {"True", "False"}

Unset == "unset"

NoArgs == [default |-> None, cls |-> None, indent |-> None, ensure_ascii |-> None]

NoResult == [kind |-> "none", out |-> "", err |-> None, calls |-> <<>>]

NoLookup == [kind |-> "none", value |-> None, err |-> None]

\* core.str_to_object for an argument that is not a str: the object itself
str_to_object(obj) == obj

\* core.RESERVED_ATTRS
coreRESERVED_ATTRS == "core.RESERVED_ATTRS"

\* Python truth of a configured object: None is false, a function or a
\* class is true.
Truthy(obj) == obj # None

Init ==
    /\ constructed = "False"
    /\ given_default = Unset
    /\ given_encoder = Unset
    /\ json_default = Unset
    /\ json_encoder = Unset
    /\ json_serializer = Unset
    /\ json_indent = Unset
    /\ json_ensure_ascii = Unset
    /\ pc = [t \in Callers |-> "idle"]
    /\ rec = [t \in Callers |-> <<>>]
    /\ invoked = [t \in Callers |-> 0]
    /\ passed = [t \in Callers |-> NoArgs]
    /\ result = [t \in Callers |-> NoResult]
    /\ accessLog = <<>>
    /\ warnLog = <<>>
    /\ lookup = NoLookup

\* __init__ that installs JsonEncoder whenever no encoder was given, a
\* given json_default notwithstanding.
ConstructIgnoringDefault(default, encoder, serializer, indent, ensure_ascii) ==
    /\ constructed = "False"
    /\ constructed' = "True"
    /\ given_default' = default
    /\ given_encoder' = encoder
    /\ json_default' = str_to_object(default)
    /\ json_encoder' = IF ~Truthy(str_to_object(encoder)) THEN "JsonEncoder"
                       ELSE str_to_object(encoder)
    /\ json_serializer' = str_to_object(serializer)
    /\ json_indent' = indent
    /\ json_ensure_ascii' = ensure_ascii
    /\ UNCHANGED <<callVars, shimVars>>

\* JsonFormatter.__init__
Construct(default, encoder, serializer, indent, ensure_ascii) ==
    /\ constructed = "False"
    /\ constructed' = "True"
    /\ given_default' = default
    /\ given_encoder' = encoder
    /\ json_default' = str_to_object(default)
    /\ json_encoder' = IF ~Truthy(str_to_object(encoder)) /\ ~Truthy(str_to_object(default))
                       THEN "JsonEncoder"
                       ELSE str_to_object(encoder)
    /\ json_serializer' = str_to_object(serializer)
    /\ json_indent' = indent
    /\ json_ensure_ascii' = ensure_ascii
    /\ UNCHANGED <<callVars, shimVars>>

\* A caller enters jsonify_log_record with one of the given records.
Call(t, records) ==
    /\ constructed = "True"
    /\ pc[t] = "idle"
    /\ pc' = [pc EXCEPT ![t] = "called"]
    /\ \E r \in records : rec' = [rec EXCEPT ![t] = r]
    /\ invoked' = [invoked EXCEPT ![t] = 0]
    /\ passed' = [passed EXCEPT ![t] = NoArgs]
    /\ result' = [result EXCEPT ![t] = NoResult]
    /\ UNCHANGED <<formatterVars, shimVars>>

\* jsonify_log_record that hands the default function over only when no
\* encoder class is configured.
JsonifyEncoderOnly(t) ==
    LET d == IF json_encoder # None THEN None ELSE json_default
    IN  /\ pc[t] = "called"
        /\ pc' = [pc EXCEPT ![t] = "done"]
        /\ invoked' = [invoked EXCEPT ![t] = @ + 1]
        /\ passed' = [passed EXCEPT ![t] = [default |-> d, cls |-> json_encoder,
                                            indent |-> json_indent,
                                            ensure_ascii |-> json_ensure_ascii]]
        /\ result' = [result EXCEPT ![t] =
                        CallSerializer(json_serializer, rec[t], d, json_encoder,
                                       json_indent, json_ensure_ascii)]
        /\ UNCHANGED <<formatterVars, rec, shimVars>>

\* jsonify_log_record that installs JsonEncoder on the instance when the
\* call finds no encoder class configured.
JsonifyInstallingEncoder(t) ==
    /\ pc[t] = "called"
    /\ pc' = [pc EXCEPT ![t] = "done"]
    /\ invoked' = [invoked EXCEPT ![t] = @ + 1]
    /\ passed' = [passed EXCEPT ![t] = [default |-> json_default, cls |-> json_encoder,
                                        indent |-> json_indent,
                                        ensure_ascii |-> json_ensure_ascii]]
    /\ result' = [result EXCEPT ![t] =
                    CallSerializer(json_serializer, rec[t], json_default, json_encoder,
                                   json_indent, json_ensure_ascii)]
    /\ json_encoder' = IF json_encoder = None THEN "JsonEncoder" ELSE json_encoder
    /\ UNCHANGED <<constructed, given_default, given_encoder, json_default,
                   json_serializer, json_indent, json_ensure_ascii, rec, shimVars>>

\* jsonify_log_record that calls the serializer a second time when the
\* first call raised.
JsonifyRetrying(t) ==
    LET r == CallSerializer(json_serializer, rec[t], json_default, json_encoder,
                            json_indent, json_ensure_ascii)
    IN  /\ pc[t] = "called"
        /\ pc' = [pc EXCEPT ![t] = "done"]
        /\ invoked' = [invoked EXCEPT ![t] = IF r.kind = "raise" THEN @ + 2 ELSE @ + 1]
        /\ passed' = [passed EXCEPT ![t] = [default |-> json_default, cls |-> json_encoder,
                                            indent |-> json_indent,
                                            ensure_ascii |-> json_ensure_ascii]]
        /\ result' = [result EXCEPT ![t] = r]
        /\ UNCHANGED <<formatterVars, rec, shimVars>>

\* JsonFormatter.jsonify_log_record: the one call of self.json_serializer,
\* whose return value or error is the call's own.
jsonify_log_record(t) ==
    /\ pc[t] = "called"
    /\ pc' = [pc EXCEPT ![t] = "done"]
    /\ invoked' = [invoked EXCEPT ![t] = @ + 1]
    /\ passed' = [passed EXCEPT ![t] = [default |-> json_default, cls |-> json_encoder,
                                        indent |-> json_indent,
                                        ensure_ascii |-> json_ensure_ascii]]
    /\ result' = [result EXCEPT ![t] =
                    CallSerializer(json_serializer, rec[t], json_default, json_encoder,
                                   json_indent, json_ensure_ascii)]
    /\ UNCHANGED <<formatterVars, rec, shimVars>>

\* The caller takes the result and may call again.
Finish(t) ==
    /\ pc[t] = "done"
    /\ pc' = [pc EXCEPT ![t] = "idle"]
    /\ rec' = [rec EXCEPT ![t] = <<>>]
    /\ invoked' = [invoked EXCEPT ![t] = 0]
    /\ passed' = [passed EXCEPT ![t] = NoArgs]
    /\ result' = [result EXCEPT ![t] = NoResult]
    /\ UNCHANGED <<formatterVars, shimVars>>

\* the longest sequence of lookups through the shim
MaxAccesses == 4

\* the names looked up that the module does not define
Names == {"RESERVED_ATTRS", "OTHER_NAME", "reserved_attrs"}

\* __getattr__ that warns on the first lookup of RESERVED_ATTRS only.
GetAttrWarnOnce(name) ==
    /\ Len(accessLog) < MaxAccesses
    /\ accessLog' = Append(accessLog, name)
    /\ IF name = "RESERVED_ATTRS"
       THEN /\ warnLog' = IF \E i \in 1..Len(accessLog) : accessLog[i] = name
                          THEN warnLog
                          ELSE Append(warnLog, "DeprecationWarning")
            /\ lookup' = [kind |-> "return", value |-> coreRESERVED_ATTRS, err |-> None]
       ELSE /\ warnLog' = warnLog
            /\ lookup' = [kind |-> "raise", value |-> None, err |-> "AttributeError"]
    /\ UNCHANGED <<formatterVars, callVars>>

\* module __getattr__(name)
GetAttr(name) ==
    /\ Len(accessLog) < MaxAccesses
    /\ accessLog' = Append(accessLog, name)
    /\ IF name = "RESERVED_ATTRS"
       THEN /\ warnLog' = Append(warnLog, "DeprecationWarning")
            /\ lookup' = [kind |-> "return", value |-> coreRESERVED_ATTRS, err |-> None]
       ELSE /\ warnLog' = warnLog
            /\ lookup' = [kind |-> "raise", value |-> None, err |-> "AttributeError"]
    /\ UNCHANGED <<formatterVars, callVars>>

\* One caller, every record.
Next ==
    \/ \E d \in DefaultArgs, e \in EncoderArgs, s \in Serializers,
          i \in IndentArgs, a \in BoolArgs : Construct(d, e, s, i, a)
    \/ Call(1, Records)
    \/ jsonify_log_record(1)
    \/ Finish(1)

Spec == Init /\ [][Next]_vars

\* Two callers of the same instance, interleaved; json_indent and
\* json_ensure_ascii keep the defaults of __init__'s signature.
NextConc ==
    \/ \E d \in DefaultArgs, e \in EncoderArgs, s \in Serializers :
          Construct(d, e, s, None, "True")
    \/ \E t \in Callers : Call(t, ConcRecords)
    \/ \E t \in Callers : jsonify_log_record(t)
    \/ \E t \in Callers : Finish(t)

SpecConc == Init /\ [][NextConc]_vars

\* Lookups through the deprecated shim.
NextShim == \E n \in Names : GetAttr(n)

SpecShim == Init /\ [][NextShim]_vars

(***************************************************************************)
(* Properties.                                                             *)
(***************************************************************************)
\* the hook calls a finished call of caller t made
HookCalls(t) == {result[t].calls[i] : i \in 1..Len(result[t].calls)}

\* the values of a record, the items of its lists included
RECURSIVE LeafValues(_, _)
LeafValues(r, i) ==
    IF i > Len(r) THEN {}
    ELSE (IF r[i][2] \in ListValues
          THEN {ListItems(r[i][2])[j] : j \in 1..Len(ListItems(r[i][2]))}
          ELSE {r[i][2]}) \cup LeafValues(r, i + 1)

\* __init__ was given neither override and the serializer is json.dumps
DefaultConfiguration ==
    /\ constructed = "True"
    /\ given_default = None
    /\ given_encoder = None
    /\ json_serializer = "json.dumps"

\* a value that none of the rules 1 to 3 of JsonEncoder.default takes
NoRule123(v) ==
    /\ ~IsTemporal(v)
    /\ ~istraceback(v)
    /\ ~IsExactException(v)
    /\ ~IsExceptionInstance(v)
    /\ ~IsExactType(v)

\* the document of a record with the single field k, written as JSON null
NullDocument(k, indent) ==
    "{" \o (IF indent = None THEN "" ELSE "\n  ") \o Quote(k) \o ": null"
        \o (IF indent = None THEN "" ELSE "\n") \o "}"

\* C1: with the default configuration every call of jsonify_log_record
\* returns a string: no error deriving from Exception that a value's
\* encoding raised escapes the call, JsonEncoder.default's worst outcome
\* being None.
C1_NoContentErrorEscapes ==
    \A t \in Callers :
        (pc[t] = "done" /\ DefaultConfiguration)
            => /\ result[t].err \notin ExceptionSubclasses
               /\ \A c \in HookCalls(t) : c.res.err \notin ExceptionSubclasses

\* C2 as stated: a value none of rules 1-3 takes, refused by the base
\* encoder, comes back as str(value) when str succeeds and as None when
\* str fails for any reason whatever; a record holding just that value
\* is then written with null and the call returns.
C2_NullForAnyStrFailure ==
    \A t \in Callers :
        pc[t] = "done" =>
            /\ \A c \in HookCalls(t) :
                   (c.hook = "JsonEncoder" /\ NoRule123(c.value)) =>
                       IF StrError(c.value) = None
                       THEN c.res.kind = "str" /\ c.res.text = StrText(c.value)
                       ELSE c.res.kind = "None"
            /\ (/\ DefaultConfiguration
                /\ Len(rec[t]) = 1
                /\ rec[t][1][2] \in OpaqueValues
                /\ NoRule123(rec[t][1][2])
                /\ StrError(rec[t][1][2]) # None)
                   => /\ result[t].kind = "return"
                      /\ result[t].out = NullDocument(rec[t][1][1], json_indent)

\* C2 amended: the same, for a str() that fails with an error deriving
\* from Exception; an error deriving from BaseException only (such as
\* KeyboardInterrupt) is not caught and leaves the call.
C2_NullForExceptionInStr ==
    \A t \in Callers :
        pc[t] = "done" =>
            /\ \A c \in HookCalls(t) :
                   (c.hook = "JsonEncoder" /\ NoRule123(c.value)) =>
                       /\ StrError(c.value) = None
                              => c.res.kind = "str" /\ c.res.text = StrText(c.value)
                       /\ StrError(c.value) \in ExceptionSubclasses
                              => c.res.kind = "None"
                       /\ StrError(c.value) \notin ExceptionSubclasses \cup {None}
                              => c.res.kind = "raise" /\ c.res.err = StrError(c.value)
            /\ (/\ DefaultConfiguration
                /\ Len(rec[t]) = 1
                /\ rec[t][1][2] \in OpaqueValues
                /\ NoRule123(rec[t][1][2])
                /\ StrError(rec[t][1][2]) \in ExceptionSubclasses)
                   => /\ result[t].kind = "return"
                      /\ result[t].out = NullDocument(rec[t][1][1], json_indent)

\* a call that returned a document with null for an object whose __str__
\* raises ValueError
C2_Witness ==
    /\ pc[1] = "done"
    /\ DefaultConfiguration
    /\ rec[1] = <<<<"a", "objBadStr">>>>
    /\ result[1].kind = "return"
    /\ \E c \in HookCalls(1) : c.value = "objBadStr" /\ c.res.kind = "None"

\* both overrides were given and the serializer is json.dumps
BothOverrides ==
    /\ constructed = "True"
    /\ given_default = "userDefault"
    /\ given_encoder = "UserEncoder"
    /\ json_serializer = "json.dumps"

\* the values the UserEncoder class's own default hook handles
UserEncoderHandles(v) == IsTemporal(v)

\* C3 as stated: with both json_encoder and json_default given, a value
\* the encoder class's own hook handles is encoded by that hook and never
\* reaches json_default; only the other values reach json_default.
C3_EncoderHookBeforeDefault ==
    \A t \in Callers :
        (pc[t] = "done" /\ BothOverrides) =>
            \A c \in HookCalls(t) :
                IF UserEncoderHandles(c.value) THEN c.hook = "UserEncoder"
                ELSE c.hook = "userDefault"

\* C3 amended: with both given, every value json.dumps cannot encode is
\* passed to the json_default function, the encoder class's own default
\* hook is never called, and a returned call has passed each such value
\* of the record to json_default.
C3_DefaultShadowsEncoderHook ==
    \A t \in Callers :
        (pc[t] = "done" /\ BothOverrides) =>
            /\ \A c \in HookCalls(t) : c.hook = "userDefault"
            /\ result[t].kind = "return"
            /\ {c.value : c \in HookCalls(t)} = LeafValues(rec[t], 1) \ NativeScalars

\* a call with both overrides on a record holding a date and an object
C3_Witness ==
    /\ pc[1] = "done"
    /\ BothOverrides
    /\ rec[1] = <<<<"a", "date">>, <<"b", "obj">>>>
    /\ result[1].kind = "return"
    /\ Len(result[1].calls) = 2

\* C4: after __init__ JsonEncoder is installed exactly when neither
\* override was given; one override given is stored as given and the
\* other field stays None; two given are both stored as given; and every
\* call hands exactly the two stored values over as default= and cls=.
C4_OverridePrecedence ==
    constructed = "True" =>
        /\ (json_encoder = "JsonEncoder") <=> (given_default = None /\ given_encoder = None)
        /\ (given_default = None /\ given_encoder = None) => json_default = None
        /\ (given_default # None /\ given_encoder = None)
               => json_default = given_default /\ json_encoder = None
        /\ (given_default = None /\ given_encoder # None)
               => json_default = None /\ json_encoder = given_encoder
        /\ (given_default # None /\ given_encoder # None)
               => json_default = given_default /\ json_encoder = given_encoder
        /\ \A t \in Callers :
               pc[t] = "done" => /\ passed[t].default = json_default
                                 /\ passed[t].cls = json_encoder

\* a call on a formatter built with json_default alone: no JsonEncoder,
\* so a date reaches the caller's function
C4_Witness ==
    /\ constructed = "True"
    /\ given_default = "userDefault"
    /\ given_encoder = None
    /\ json_encoder = None
    /\ pc[1] = "done"
    /\ passed[1].default = "userDefault"
    /\ \E c \in HookCalls(1) : c.value = "date" /\ c.hook = "userDefault"

\* the rule of JsonEncoder.default a value falls to, by the fixed order
FirstRule(v) ==
    IF IsTemporal(v) THEN 1
    ELSE IF istraceback(v) THEN 2
    ELSE IF IsExactException(v) \/ IsExceptionInstance(v) \/ IsExactType(v) THEN 3
    ELSE 5

\* C5: JsonEncoder.default resolves a value by the first rule that matches
\* in the order temporal, traceback, exception/type, base encoder,
\* str-or-None: the rules run in that order and stop at the deciding one,
\* a value matching several rules gets the earliest one's result, and
\* rule 5 runs only after the base encoder (rule 4) has run.
C5_FirstMatchWins ==
    \A t \in Callers :
        pc[t] = "done" =>
            \A c \in HookCalls(t) :
                c.hook = "JsonEncoder" =>
                    /\ c.res.rule = FirstRule(c.value)
                    /\ c.res.steps = [i \in 1..c.res.rule |-> i]
                    /\ c.res.rule = 1 => c.res.text = "iso(" \o c.value \o ")"
                    /\ c.res.rule = 2 => c.res.text = "tb(" \o c.value \o ")"
                    /\ (c.res.rule = 3 /\ c.res.kind = "str") => c.res.text = StrText(c.value)
                    /\ c.res.rule = 5 => \E i \in 1..Len(c.res.steps) : c.res.steps[i] = 4

\* a value that is both temporal and an exception instance was encoded
\* by rule 1
C5_Witness ==
    /\ pc[1] = "done"
    /\ \E c \in HookCalls(1) :
           /\ c.hook = "JsonEncoder"
           /\ c.value = "dateExc"
           /\ c.res.rule = 1
           /\ c.res.text = "iso(dateExc)"

\* o is a class object (isinstance(o, type)), whatever its metaclass
IsClassObject(o) == o \in {"ExcType", "MetaCls", "MetaClsBadStr"}

\* an exception instance or a class object that is neither temporal nor a
\* traceback
ExceptionOrClass(v) ==
    /\ IsExceptionInstance(v) \/ IsExactException(v) \/ IsClassObject(v)
    /\ ~IsTemporal(v)
    /\ ~istraceback(v)

\* C6 as stated: for every exception instance, the Exception class and
\* every class object (whatever its metaclass) JsonEncoder.default
\* returns a str equal to str(value).
C6_AlwaysStrOfValue ==
    \A t \in Callers :
        pc[t] = "done" =>
            \A c \in HookCalls(t) :
                (c.hook = "JsonEncoder" /\ ExceptionOrClass(c.value)) =>
                    c.res.kind = "str" /\ c.res.text = StrText(c.value)

\* C6 amended: the same for the values whose str() returns; when str()
\* raises, an exception instance's error leaves default (rule 3) and a
\* class of another metaclass is encoded as None (rule 5).
C6_StrOfValueWhenStrReturns ==
    \A t \in Callers :
        pc[t] = "done" =>
            \A c \in HookCalls(t) :
                (c.hook = "JsonEncoder" /\ ExceptionOrClass(c.value)
                    /\ StrError(c.value) = None) =>
                    c.res.kind = "str" /\ c.res.text = StrText(c.value)

\* a class whose metaclass is not type was encoded as its str()
C6_Witness ==
    /\ pc[1] = "done"
    /\ \E c \in HookCalls(1) :
           /\ c.hook = "JsonEncoder"
           /\ c.value = "MetaCls"
           /\ c.res.kind = "str"
           /\ c.res.text = "str(MetaCls)"
    /\ \E c \in HookCalls(1) : c.value = "exc" /\ c.res.text = "str(exc)"

\* the error a misconfigured serializer raises, None for json.dumps
ConfigurationError(serializer) ==
    CASE serializer = "notCallable" -> "TypeError"
      [] serializer = "raisesOSError" -> "OSError"
      [] OTHER -> None

\* C10: a call of jsonify_log_record calls the configured serializer
\* exactly once, and an error the serializer raises for a reason of its
\* configuration leaves the call as it is: same error, no document.
C10_OneCallErrorPropagates ==
    \A t \in Callers :
        pc[t] = "done" =>
            /\ invoked[t] = 1
            /\ ConfigurationError(json_serializer) # None
                   => /\ result[t].kind = "raise"
                      /\ result[t].err = ConfigurationError(json_serializer)
                      /\ result[t].out = ""

\* a call whose serializer raised OSError ended with that OSError
C10_Witness ==
    /\ pc[1] = "done"
    /\ json_serializer = "raisesOSError"
    /\ rec[1] # <<>>
    /\ invoked[1] = 1
    /\ result[1].kind = "raise"
    /\ result[1].err = "OSError"

\* how often a name occurs in a log
Occurrences(log, name) == Cardinality({i \in 1..Len(log) : log[i] = name})

\* C7: over any sequence of lookups through __getattr__, every lookup of
\* RESERVED_ATTRS returns core.RESERVED_ATTRS and issues exactly one
\* DeprecationWarning (n lookups, n warnings), and a lookup of any other
\* name raises AttributeError and issues no warning.
C7_OneWarningPerAccess ==
    /\ Len(warnLog) = Occurrences(accessLog, "RESERVED_ATTRS")
    /\ \A i \in 1..Len(warnLog) : warnLog[i] = "DeprecationWarning"
    /\ accessLog # <<>> =>
           IF accessLog[Len(accessLog)] = "RESERVED_ATTRS"
           THEN lookup = [kind |-> "return", value |-> coreRESERVED_ATTRS, err |-> None]
           ELSE lookup = [kind |-> "raise", value |-> None, err |-> "AttributeError"]

\* three lookups of RESERVED_ATTRS around a lookup of another name: three
\* warnings
C7_Witness ==
    /\ accessLog = <<"RESERVED_ATTRS", "OTHER_NAME", "RESERVED_ATTRS", "RESERVED_ATTRS">>
    /\ Len(warnLog) = 3
    /\ lookup.kind = "return"
    /\ lookup.value = coreRESERVED_ATTRS

\* C9: once __init__ has returned, no step of any caller's
\* jsonify_log_record, returning or raising, in any interleaving, changes
\* one of the five configuration fields, and a call's record stays as it
\* was given until the call has ended.
C9_CallsLeaveConfigurationAndRecord ==
    [][/\ constructed = "True" => config' = config
       /\ \A t \in Callers : pc[t] # "idle" /\ pc'[t] # "idle" => rec'[t] = rec[t]]_vars

\* one caller's call has raised while the other caller is inside its own
\* call, on a constructed formatter
C9_Witness ==
    /\ constructed = "True"
    /\ pc[1] = "done"
    /\ result[1].kind = "raise"
    /\ pc[2] = "called"
    /\ rec[2] # <<>>
    /\ config = <<None, "JsonEncoder", "raisesOSError", None, "True">>
=============================================================================
